---- MODULE Spec2Model ----
(***************************************************************************)
(* A model of depends.py, a dependency graph generator for C/C++.          *)
(*                                                                         *)
(* A path is a sequence of string fragments ("tokens"); the path string is *)
(* their concatenation, so that prefix tests, joins and splits act as they *)
(* do on Python strings.  "/" is always a token of its own.                *)
(* The process runs with the input directory "." as working directory.     *)
(***************************************************************************)
EXTENDS Integers, Sequences, FiniteSets, TLC

VARIABLES
    disk,       \* regular files: canonical path -> sequence of lines
    incUser,    \* the -I arguments, in command-line order
    sysInc,     \* SYS_INC_PATHS, as main() builds it for the platform
    listing,    \* what os.listdir('.') returns, in the order it returns it
    nodes,      \* graph.nodes: path -> Node fields
    order,      \* iteration order of graph.nodes (insertion order)
    stack,      \* the call stack of cpp_scan_dir/cpp_scan_file/print_tree
    pc,         \* "main", "scan", "scanned", "render", "done", "exit"
    mode,       \* the render that was started
    target,     \* the name given to --node, when that is the render
    depth,      \* global depth
    out,        \* lines printed by the renders
    errs,       \* diagnostics printed by error()
    reads,      \* path -> number of times open(path) was executed
    opts        \* the options main() read from its command line

vars == <<disk, incUser, sysInc, listing, nodes, order, stack, pc, mode,
          target, depth, out, errs, reads, opts>>

(***************************** bounds ***************************************)
\* Most include directives in the whole tree.
MaxIncludes == 3

\* The ceiling of the global depth.  depends.py sets it to 1000; the model
\* runs with a low ceiling, which the trees of MaxIncludes directives reach.
MAX_DEPTH == 2

(************************** program constants *******************************)
INDENT == 2
CPP_FILE_TYPES == {".c", ".cpp", ".cxx"}
IGNORE_LIST == {".git"}

(***************************** paths ****************************************)
SEP == "/"

\* os.path.join(a, b) for two components (posixpath).
Join(a, b) ==
    IF b # <<>> /\ b[1] = SEP THEN b
    ELSE IF a = <<>> \/ a[Len(a)] = SEP THEN a \o b
    ELSE a \o <<SEP>> \o b

\* Index of the last "/" of p, 0 when there is none (p.rfind('/') + 1).
RECURSIVE LastSep(_, _)
LastSep(p, i) ==
    IF i = 0 THEN 0 ELSE IF p[i] = SEP THEN i ELSE LastSep(p, i - 1)

\* head.rstrip('/')
RECURSIVE RStripSep(_)
RStripSep(h) ==
    IF h # <<>> /\ h[Len(h)] = SEP THEN RStripSep(SubSeq(h, 1, Len(h) - 1)) ELSE h

\* os.path.split(p): <<head, tail>>.
Split(p) ==
    LET i == LastSep(p, Len(p))
        head == SubSeq(p, 1, i)
        tail == SubSeq(p, i + 1, Len(p))
    IN  <<IF RStripSep(head) = <<>> THEN head ELSE RStripSep(head), tail>>

\* str.startswith
StartsWith(s, prefix) ==
    Len(prefix) <= Len(s) /\ SubSeq(s, 1, Len(prefix)) = prefix

\* The file-system object a path string designates, relative to the working
\* directory: leading "./" components do not change it.
RECURSIVE Canon(_)
Canon(p) ==
    IF Len(p) >= 2 /\ p[1] = "." /\ p[2] = SEP THEN Canon(SubSeq(p, 3, Len(p)))
    ELSE p

\* os.path.splitext('x' + file)[1] for the names of the tree.
Ext(name) ==
    CASE name \in {"main.cpp", "x.cpp"} -> ".cpp"
      [] name \in {"util.h", "base.h"} -> ".h"
      [] name = ".git" -> ".git"
      [] OTHER -> ""

(************************** the file system *********************************)
Cwd == <<".">>
IncDir == <<"inc">>
SysDir == <<SEP, "usr", SEP, "include">>
\* "/usr/include2": not a system directory, though its name starts like one.
Sys2Dir == <<SEP, "usr", SEP, "include", "2">>

MainCpp == <<"main.cpp">>
XCpp == <<"x.cpp">>
UtilH == <<"util.h">>
BaseH == <<"base.h">>

\* An include directive line: lead blanks before '#', the two delimiters and
\* the text between them.
Quoted(s) == [lead |-> 0, open |-> "\"", spelling |-> s, close |-> "\""]
Angle(s) == [lead |-> 0, open |-> "<", spelling |-> s, close |-> ">"]

\* The same directive after one blank.
Indented(line) == [line EXCEPT !.lead = 1]
\* Directives whose delimiters disagree: #include <s" and #include "s>
OpenAngle(s) == [lead |-> 0, open |-> "<", spelling |-> s, close |-> "\""]
OpenQuote(s) == [lead |-> 0, open |-> "\"", spelling |-> s, close |-> ">"]

\* The lines each file of the working directory may hold.
LinesOf(f) ==
    CASE f = MainCpp -> {Quoted(UtilH), Quoted(BaseH), Angle(UtilH)}
      [] f = XCpp -> {Quoted(UtilH)}
      [] f = UtilH -> {Quoted(BaseH), Quoted(MainCpp)}
      [] f = BaseH -> {Quoted(UtilH), Quoted(BaseH)}
      [] OTHER -> {}

RECURSIVE SeqsUpTo(_, _)
SeqsUpTo(S, n) ==
    IF n = 0 THEN {<<>>}
    ELSE LET shorter == SeqsUpTo(S, n - 1)
         IN  shorter \cup {Append(s, x) : s \in {t \in shorter : Len(t) = n - 1}, x \in S}

\* Files outside the working directory's own sources: a user include
\* directory and a system include directory, each holding a util.h.
FixedFiles ==
    {IncDir \o <<SEP>> \o UtilH, SysDir \o <<SEP>> \o UtilH, Sys2Dir \o <<SEP>> \o UtilH}

\* Stands for "no such file" where a content is chosen.
Absent == <<[lead |-> 0, open |-> "", spelling |-> <<>>, close |-> ""]>>

Contents(f) == SeqsUpTo(LinesOf(f), MaxIncludes)

LenOf(c) == IF c = Absent THEN 0 ELSE Len(c)

MkDisk(m, x, u, b) ==
    LET present == {MainCpp, BaseH} \cup (IF x = Absent THEN {} ELSE {XCpp})
                                    \cup (IF u = Absent THEN {} ELSE {UtilH})
    IN  [f \in FixedFiles \cup present |->
            IF f = MainCpp THEN m ELSE IF f = XCpp THEN x
            ELSE IF f = UtilH THEN u ELSE IF f = BaseH THEN b ELSE <<>>]

\* The trees the scan is run on: main.cpp and base.h always exist, x.cpp and
\* util.h may be absent, and the tree holds at most MaxIncludes directives.
Disks ==
    {MkDisk(t[1], t[2], t[3], t[4]) :
        t \in {q \in Contents(MainCpp) \X (Contents(XCpp) \cup {Absent})
                     \X (Contents(UtilH) \cup {Absent}) \X Contents(BaseH) :
                 LenOf(q[1]) + LenOf(q[2]) + LenOf(q[3]) + LenOf(q[4]) <= MaxIncludes}}

\* The lines main.cpp may hold in the trees of one source with directives of
\* every form.
WideLines ==
    {Quoted(UtilH), Quoted(BaseH), Angle(UtilH), OpenAngle(UtilH), Indented(Quoted(BaseH))}

\* Trees of that kind: main.cpp holds at most MaxIncludes lines, x.cpp
\* includes the header of /usr/include2 by its absolute path, util.h is
\* absent, empty or holds a directive with mismatched delimiters.
WideDisks ==
    {MkDisk(m, <<Quoted(Sys2Dir \o <<SEP>> \o UtilH)>>, u, <<>>) :
        m \in SeqsUpTo(WideLines, MaxIncludes), u \in {Absent, <<>>, <<OpenQuote(BaseH)>>}}

isfile(p) == Canon(p) \in DOMAIN disk
isdir(p) == Canon(p) \in {Cwd, IncDir, <<".git">>}

\* os.listdir
listdir(d) ==
    IF Canon(d) = Cwd THEN listing
    ELSE IF Canon(d) = IncDir THEN <<"util.h">>
    ELSE <<>>

\* inc_search_paths after main() has read the options and added the system
\* paths.
inc_search_paths == incUser \o sysInc
(****************************** the graph ***********************************)
Range(s) == {s[i] : i \in DOMAIN s}

\* Node.__init__
Node == [children |-> <<>>, has_parent |-> FALSE, visited |-> FALSE, missing |-> FALSE]

\* Graph.get_node on the graph G = [nodes, order].
get_node(G, file) ==
    IF file \in DOMAIN G.nodes THEN G
    ELSE [G EXCEPT !.nodes = (file :> Node) @@ G.nodes, !.order = Append(G.order, file)]

\* add_child as it would be with the flag left unset.
add_child_no_flag(G, parent, child) ==
    IF child \in Range(G.nodes[parent].children) THEN G
    ELSE [G EXCEPT !.nodes = [@ EXCEPT ![parent].children = Append(@, child)]]

\* add_child as it would be with the flag set on the receiver.
add_child_flag_on_self(G, parent, child) ==
    IF child \in Range(G.nodes[parent].children) THEN G
    ELSE LET linked == [G.nodes EXCEPT ![parent].children = Append(@, child)]
         IN  [G EXCEPT !.nodes = [linked EXCEPT ![parent].has_parent = TRUE]]

\* add_child as it would be without the test of membership.
add_child_again(G, parent, child) ==
    LET linked == [G.nodes EXCEPT ![parent].children = Append(@, child)]
    IN  [G EXCEPT !.nodes = [linked EXCEPT ![child].has_parent = TRUE]]

\* Node.add_child: self = G.nodes[parent], node = G.nodes[child].
add_child(G, parent, child) ==
    IF child \in Range(G.nodes[parent].children) THEN G
    ELSE LET linked == [G.nodes EXCEPT ![parent].children = Append(@, child)]
         IN  [G EXCEPT !.nodes = [linked EXCEPT ![child].has_parent = TRUE]]

\* Node.has_children
has_children(n) == Len(n.children) > 0

(*************************** path resolution ********************************)
\* The loop of resolve_path over inc_search_paths, from index i on.
RECURSIVE SearchFrom(_, _)
SearchFrom(i, inc_path) ==
    IF i > Len(inc_search_paths) THEN inc_path
    ELSE IF isfile(Join(inc_search_paths[i], inc_path))
         THEN Join(inc_search_paths[i], inc_path)
         ELSE SearchFrom(i + 1, inc_path)

\* resolve_path as it would be if it tried the including directory for
\* every include.
resolve_path_dir_first(dir_path, inc_path, relative) ==
    IF isfile(Join(dir_path, inc_path)) THEN Join(dir_path, inc_path)
    ELSE SearchFrom(1, inc_path)

resolve_path(dir_path, inc_path, relative) ==
    IF relative /\ isfile(Join(dir_path, inc_path)) THEN Join(dir_path, inc_path)
    ELSE SearchFrom(1, inc_path)

is_sys_header_path(dir_path) ==
    \E i \in 1..Len(sysInc) : StartsWith(dir_path, sysInc[i])

(***************************** the scanner **********************************)
\* CPP_INC_PATTERN.match(line): the pattern is anchored at the line's start.
Matches(line) == line.lead = 0

InvalidDelims(line) ==
    \/ line.open = "<" /\ line.close = "\""
    \/ line.open = "\"" /\ line.close = ">"

\* The loop over the lines as it would be if it took a directive with
\* mismatched delimiters for a valid one.
RECURSIVE ReadLines_lenient(_, _, _)
ReadLines_lenient(path, line_num, acc) ==
    LET lines == disk[Canon(path)]
    IN  IF line_num > Len(lines) THEN acc
        ELSE LET line == lines[line_num]
                 inc_path == resolve_path(Split(path)[1], line.spelling, line.open = "\"")
                 next ==
                   IF ~Matches(line) THEN acc
                   ELSE IF is_sys_header_path(Split(inc_path)[1]) THEN acc
                   ELSE [acc EXCEPT !.includes = Append(@, inc_path)]
             IN  ReadLines_lenient(path, line_num + 1, next)

\* The loop of cpp_scan_file over the lines of path, from line_num on:
\* the includes recorded and the diagnostics printed.
RECURSIVE ReadLines(_, _, _)
ReadLines(path, line_num, acc) ==
    LET lines == disk[Canon(path)]
    IN  IF line_num > Len(lines) THEN acc
        ELSE LET line == lines[line_num]
                 inc_path == resolve_path(Split(path)[1], line.spelling, line.open = "\"")
                 next ==
                   IF ~Matches(line) THEN acc
                   ELSE IF InvalidDelims(line)
                   THEN [acc EXCEPT !.errs = Append(@, [kind |-> "invalid", path |-> path, line_num |-> line_num])]
                   ELSE IF is_sys_header_path(Split(inc_path)[1]) THEN acc
                   ELSE [acc EXCEPT !.includes = Append(@, inc_path)]
             IN  ReadLines(path, line_num + 1, next)

Frame(kind, path, items) == [kind |-> kind, path |-> path, items |-> items, i |-> 1]

\* cpp_scan_file as it would be without the test of visited.
cpp_scan_file_rescan(S, path) ==
    LET G == get_node([nodes |-> S.nodes, order |-> S.order], path)
        seen == [S EXCEPT !.nodes = [G.nodes EXCEPT ![path].visited = TRUE], !.order = G.order]
    IN  IF ~isfile(path)
        THEN [seen EXCEPT !.nodes = [@ EXCEPT ![path].missing = TRUE],
                          !.errs = Append(@, [kind |-> "missing", path |-> path, line_num |-> 0])]
             @@ [push |-> <<>>]
        ELSE LET got == ReadLines(path, 1, [includes |-> <<>>, errs |-> seen.errs])
             IN  [seen EXCEPT !.errs = got.errs,
                              !.reads = (path :> (IF path \in DOMAIN @ THEN @[path] + 1 ELSE 1)) @@ @]
                 @@ [push |-> <<Frame("file", path, got.includes)>>]

\* cpp_scan_file(path) up to its last loop, on S = [nodes, order, reads, errs];
\* push holds the frame of the last loop when the call gets that far.
cpp_scan_file(S, path) ==
    LET G == get_node([nodes |-> S.nodes, order |-> S.order], path)
        seen == [S EXCEPT !.nodes = [G.nodes EXCEPT ![path].visited = TRUE], !.order = G.order]
    IN  IF G.nodes[path].visited
        THEN [S EXCEPT !.nodes = G.nodes, !.order = G.order] @@ [push |-> <<>>]
        ELSE IF ~isfile(path)
        THEN [seen EXCEPT !.nodes = [@ EXCEPT ![path].missing = TRUE],
                          !.errs = Append(@, [kind |-> "missing", path |-> path, line_num |-> 0])]
             @@ [push |-> <<>>]
        ELSE LET got == ReadLines(path, 1, [includes |-> <<>>, errs |-> seen.errs])
             IN  [seen EXCEPT !.errs = got.errs,
                              !.reads = (path :> (IF path \in DOMAIN @ THEN @[path] + 1 ELSE 1)) @@ @]
                 @@ [push |-> <<Frame("file", path, got.includes)>>]

Top == stack[Len(stack)]
Pop == SubSeq(stack, 1, Len(stack) - 1)

Machine == [nodes |-> nodes, order |-> order, reads |-> reads, errs |-> errs]

\* The state after a call of cpp_scan_file made from the frame on top of
\* the stack, whose loop moves on to its next item.
CallScanFile(S, path) ==
    LET r == cpp_scan_file(S, path)
    IN  /\ nodes' = r.nodes
        /\ order' = r.order
        /\ reads' = r.reads
        /\ errs' = r.errs
        /\ stack' = Append(Pop, [Top EXCEPT !.i = @ + 1]) \o r.push

Files == <<disk, incUser, sysInc, listing>>
Config == <<disk, incUser, sysInc, listing, opts>>
RenderVars == <<mode, target, depth, out>>

\* cpp_scan_dir, first loop: one entry of the listing.
ScanDirFile ==
    /\ pc = "scan" /\ stack # <<>> /\ Top.kind = "dir_files"
    /\ Top.i <= Len(Top.items)
    /\ LET file == Top.items[Top.i]
           path == Join(Top.path, <<file>>)
       IN  IF isfile(path) /\ Ext(file) \notin IGNORE_LIST /\ Ext(file) \in CPP_FILE_TYPES
           THEN CallScanFile(Machine, path)
           ELSE /\ stack' = Append(Pop, [Top EXCEPT !.i = @ + 1])
                /\ UNCHANGED <<nodes, order, reads, errs>>
    /\ UNCHANGED <<Config, RenderVars, pc>>

\* cpp_scan_dir, between its loops.
ScanDirFilesDone ==
    /\ pc = "scan" /\ stack # <<>> /\ Top.kind = "dir_files"
    /\ Top.i > Len(Top.items)
    /\ stack' = Append(Pop, [Top EXCEPT !.kind = "dir_subs", !.i = 1])
    /\ UNCHANGED <<Config, RenderVars, pc, nodes, order, reads, errs>>

\* cpp_scan_dir, second loop: one entry of the listing.
ScanDirSub ==
    /\ pc = "scan" /\ stack # <<>> /\ Top.kind = "dir_subs"
    /\ Top.i <= Len(Top.items)
    /\ LET file == Top.items[Top.i]
           path == Join(Top.path, <<file>>)
       IN  stack' = Append(Pop, [Top EXCEPT !.i = @ + 1])
                      \o (IF isdir(path) /\ Ext(file) \notin IGNORE_LIST
                          THEN <<Frame("dir_files", path, listdir(path))>> ELSE <<>>)
    /\ UNCHANGED <<Config, RenderVars, pc, nodes, order, reads, errs>>

\* cpp_scan_file, last loop: one recorded include.
ScanInclude ==
    /\ pc = "scan" /\ stack # <<>> /\ Top.kind = "file"
    /\ Top.i <= Len(Top.items)
    /\ LET inc_path == Top.items[Top.i]
           G == add_child(get_node([nodes |-> nodes, order |-> order], inc_path),
                          inc_path, Top.path)
       IN  CallScanFile([Machine EXCEPT !.nodes = G.nodes, !.order = G.order], inc_path)
    /\ UNCHANGED <<Config, RenderVars, pc>>

\* A call of cpp_scan_file or cpp_scan_dir returns; main() goes on when the
\* outermost cpp_scan_dir does.
ScanReturn ==
    /\ pc = "scan" /\ stack # <<>> /\ Top.kind \in {"file", "dir_subs"}
    /\ Top.i > Len(Top.items)
    /\ stack' = Pop
    /\ pc' = IF Pop = <<>> THEN "scanned" ELSE "scan"
    /\ UNCHANGED <<Config, RenderVars, nodes, order, reads, errs>>

(***************************** the renderer *********************************)
\* The prefix test and the slice of Node.print_node.
StripPrefix(s) ==
    IF Len(s) >= 2 /\ s[1] = "." /\ s[2] \in {SEP, "\\"} THEN SubSeq(s, 3, Len(s)) ELSE s

\* print_node as it would be without the ' *' suffix.
print_node_no_star(ns, d, file) ==
    [kind |-> "node", file |-> file, text |-> StripPrefix(file), indent |-> d * INDENT,
     star |-> FALSE, miss |-> ns[file].missing]

\* The line Node.print_node prints for the node of path file: text is the
\* path text, indent the number of blanks before it, star and miss the
\* suffixes ' *' and ' ?'.
print_node(ns, d, file) ==
    [kind |-> "node", file |-> file, text |-> StripPrefix(file), indent |-> d * INDENT,
     star |-> ns[file].visited, miss |-> ns[file].missing]

\* The diagnostic of Node.print_tree, with the depth it names.
MaxDepthLine(d) ==
    [kind |-> "maxdepth", file |-> <<>>, text |-> <<>>, indent |-> d, star |-> FALSE, miss |-> FALSE]

\* The '[none]' line of main().
NoneLine ==
    [kind |-> "none", file |-> <<>>, text |-> <<>>, indent |-> 0, star |-> FALSE, miss |-> FALSE]

\* print_tree as it would be if it never set visited.
print_tree_no_mark(R, file) ==
    IF R.depth > MAX_DEPTH
    THEN [R EXCEPT !.out = Append(@, MaxDepthLine(R.depth))] @@ [ret |-> "False", push |-> <<>>]
    ELSE LET printed == [R EXCEPT !.out = Append(@, print_node(R.nodes, R.depth, file))]
         IN  IF R.nodes[file].visited
             THEN printed @@ [ret |-> "None", push |-> <<>>]
             ELSE [printed EXCEPT !.depth = @ + 1]
                  @@ [ret |-> "loop", push |-> <<Frame("tree", file, R.nodes[file].children)>>]

\* print_tree as it would be with the depth left as it is.
print_tree_flat(R, file) ==
    IF R.depth > MAX_DEPTH
    THEN [R EXCEPT !.out = Append(@, MaxDepthLine(R.depth))] @@ [ret |-> "False", push |-> <<>>]
    ELSE LET printed == [R EXCEPT !.out = Append(@, print_node(R.nodes, R.depth, file))]
         IN  IF R.nodes[file].visited
             THEN printed @@ [ret |-> "None", push |-> <<>>]
             ELSE [printed EXCEPT !.nodes = [@ EXCEPT ![file].visited = TRUE]]
                  @@ [ret |-> "loop", push |-> <<Frame("tree", file, R.nodes[file].children)>>]

\* print_tree as it would be without the test of the depth.
print_tree_no_ceiling(R, file) ==
    LET printed == [R EXCEPT !.out = Append(@, print_node(R.nodes, R.depth, file))]
    IN  IF R.nodes[file].visited
        THEN printed @@ [ret |-> "None", push |-> <<>>]
        ELSE [printed EXCEPT !.nodes = [@ EXCEPT ![file].visited = TRUE],
                             !.depth = @ + 1]
             @@ [ret |-> "loop", push |-> <<Frame("tree", file, R.nodes[file].children)>>]

\* Node.print_tree up to its loop, on R = [nodes, depth, out]: ret is what
\* the call returns when it returns before the loop ("False" or "None"),
\* and "loop" when it enters the loop, whose frame is then in push.
print_tree(R, file) ==
    IF R.depth > MAX_DEPTH
    THEN [R EXCEPT !.out = Append(@, MaxDepthLine(R.depth))] @@ [ret |-> "False", push |-> <<>>]
    ELSE LET printed == [R EXCEPT !.out = Append(@, print_node(R.nodes, R.depth, file))]
         IN  IF R.nodes[file].visited
             THEN printed @@ [ret |-> "None", push |-> <<>>]
             ELSE [printed EXCEPT !.nodes = [@ EXCEPT ![file].visited = TRUE],
                                  !.depth = @ + 1]
                  @@ [ret |-> "loop", push |-> <<Frame("tree", file, R.nodes[file].children)>>]

\* clear_visisted as it would be if it left the flags alone.
clear_visisted_none(ns) == ns

\* Graph.clear_visisted
clear_visisted(ns) == [f \in DOMAIN ns |-> [ns[f] EXCEPT !.visited = FALSE]]

\* The frames left when `return False` has passed through every print_tree
\* frame on top of st.
RECURSIVE Unwind(_)
Unwind(st) ==
    IF st # <<>> /\ st[Len(st)].kind = "tree" THEN Unwind(SubSeq(st, 1, Len(st) - 1)) ELSE st

Rendering == [nodes |-> nodes, depth |-> depth, out |-> out]

PcAfter(st) == IF st = <<>> THEN "done" ELSE "render"

\* Graph.print_graph is called: clear_visisted, then the loop over the nodes.
CallPrintGraph ==
    /\ pc = "scanned"
    /\ mode' = "graph"
    /\ UNCHANGED target
    /\ nodes' = clear_visisted(nodes)
    /\ depth' = 0
    /\ stack' = <<Frame("graph", <<>>, order)>>
    /\ pc' = "render"
    /\ UNCHANGED <<order, out, errs, reads>>

StartPrintGraph == CallPrintGraph /\ UNCHANGED Config

\* Graph.print_graph, one node of its loop.
PrintGraphNode ==
    /\ pc = "render" /\ stack # <<>> /\ Top.kind = "graph"
    /\ Top.i <= Len(Top.items)
    /\ LET file == Top.items[Top.i]
           r == print_tree(Rendering, file)
       IN  IF nodes[file].has_parent
           THEN /\ stack' = Append(Pop, [Top EXCEPT !.i = @ + 1])
                /\ UNCHANGED <<nodes, depth, out>>
           ELSE /\ stack' = Append(Pop, [Top EXCEPT !.i = @ + 1]) \o r.push
                /\ nodes' = r.nodes
                /\ depth' = r.depth
                /\ out' = r.out
    /\ UNCHANGED <<Config, order, pc, mode, target, errs, reads>>

\* Graph.print_graph returns.
PrintGraphReturn ==
    /\ pc = "render" /\ stack # <<>> /\ Top.kind = "graph"
    /\ Top.i > Len(Top.items)
    /\ stack' = Pop
    /\ pc' = "done"
    /\ UNCHANGED <<Config, nodes, order, mode, target, depth, out, errs, reads>>

\* The names given to --node: the paths of the graph and the texts the
\* renders print for them.
Targets == DOMAIN nodes \cup {StripPrefix(f) : f \in DOMAIN nodes}

\* main() with --node name: Graph.print_node(name), or '[none]'.
CallPrintNode(name) ==
    /\ pc = "scanned"
    /\ mode' = "node"
    /\ target' = name
    /\ IF name \in DOMAIN nodes
       THEN LET r == print_tree([nodes |-> clear_visisted(nodes), depth |-> 0, out |-> out], name)
            IN  /\ nodes' = r.nodes
                /\ depth' = r.depth
                /\ out' = r.out
                /\ stack' = r.push
                /\ pc' = PcAfter(r.push)
       ELSE /\ out' = Append(out, NoneLine)
            /\ stack' = <<>>
            /\ pc' = "done"
            /\ UNCHANGED <<nodes, depth>>
    /\ UNCHANGED <<order, errs, reads>>

StartPrintNode(name) == CallPrintNode(name) /\ UNCHANGED Config

\* Node.print_tree, one child of its loop.
PrintTreeChild ==
    /\ pc = "render" /\ stack # <<>> /\ Top.kind = "tree"
    /\ Top.i <= Len(Top.items)
    /\ LET r == print_tree(Rendering, Top.items[Top.i])
           st == IF r.ret = "loop"
                 THEN Append(Pop, [Top EXCEPT !.i = @ + 1]) \o r.push
                 ELSE Unwind(stack)
       IN  /\ nodes' = r.nodes
           /\ depth' = r.depth
           /\ out' = r.out
           /\ stack' = st
           /\ pc' = PcAfter(st)
    /\ UNCHANGED <<Config, order, mode, target, errs, reads>>

\* Node.print_tree returns True after its loop.
PrintTreeReturn ==
    /\ pc = "render" /\ stack # <<>> /\ Top.kind = "tree"
    /\ Top.i > Len(Top.items)
    /\ depth' = depth - 1
    /\ stack' = Pop
    /\ pc' = PcAfter(Pop)
    /\ UNCHANGED <<Config, nodes, order, mode, target, out, errs, reads>>

\* The lines of Node.print_node, at depth 0, for the nodes sel in turn.
PrintNodes(ns, sel) == [i \in 1..Len(sel) |-> print_node(ns, 0, sel[i])]

IsLeaf(n) == has_children(n) = FALSE
IsTopLevel(n) == ~n.has_parent

\* Graph.print_leaf_nodes
CallPrintLeafNodes ==
    /\ pc = "scanned"
    /\ mode' = "leaf"
    /\ UNCHANGED target
    /\ nodes' = clear_visisted(nodes)
    /\ depth' = 0
    /\ out' = out \o PrintNodes(clear_visisted(nodes), SelectSeq(order, LAMBDA f : IsLeaf(nodes[f])))
    /\ stack' = <<>>
    /\ pc' = "done"
    /\ UNCHANGED <<order, errs, reads>>

print_leaf_nodes == CallPrintLeafNodes /\ UNCHANGED Config

\* Graph.print_top_level_nodes
CallPrintTopLevelNodes ==
    /\ pc = "scanned"
    /\ mode' = "top"
    /\ UNCHANGED target
    /\ nodes' = clear_visisted(nodes)
    /\ depth' = 0
    /\ out' = out \o PrintNodes(clear_visisted(nodes), SelectSeq(order, LAMBDA f : IsTopLevel(nodes[f])))
    /\ stack' = <<>>
    /\ pc' = "done"
    /\ UNCHANGED <<order, errs, reads>>

print_top_level_nodes == CallPrintTopLevelNodes /\ UNCHANGED Config

(******************************* main ***************************************)
\* A command line, as far as it selects the render: the two flags and the
\* argument of --node, <<>> when the option is not given.
NoOptions == [top |-> FALSE, leaf |-> FALSE, node |-> <<>>]
Options(names) == [top : BOOLEAN, leaf : BOOLEAN, node : names \cup {<<>>}]

\* The option loop of main(): what it leaves in only_top_level and in
\* only_leaf_level, and whether it reaches its else branch.  getopt returns
\* '--leaf-level' for the leaf flag, the loop tests '--only_leaf_level'.
only_top_level(o) == o.top
only_leaf_level(o) == FALSE
invalid_option(o) == o.leaf

\* What main() does with the options o: the render it calls, or the exit
\* it takes.
main_select(o) ==
    IF invalid_option(o) THEN "invalid option"
    ELSE IF only_top_level(o) /\ only_leaf_level(o) THEN "both flags"
    ELSE IF o.node # <<>> THEN "node"
    ELSE IF ~only_top_level(o) /\ ~only_leaf_level(o) THEN "graph"
    ELSE IF only_top_level(o) THEN "top"
    ELSE "leaf"

\* main() leaves with sys.exit(1) before it scans anything.
MainReject(o) ==
    /\ pc = "main"
    /\ main_select(o) \in {"invalid option", "both flags"}
    /\ opts' = o
    /\ errs' = Append(errs, [kind |-> main_select(o), path |-> <<>>, line_num |-> 0])
    /\ pc' = "exit"
    /\ UNCHANGED <<Files, nodes, order, stack, mode, target, depth, out, reads>>

\* main() calls cpp_scan_dir(input_dir).
MainScan ==
    /\ pc = "main"
    /\ stack' = <<Frame("dir_files", Cwd, listing)>>
    /\ pc' = "scan"
    /\ UNCHANGED <<Config, nodes, order, mode, target, depth, out, errs, reads>>

\* main() prints the results for the options o it accepted.
MainRender(o) ==
    /\ pc = "scanned"
    /\ opts' = o
    /\ CASE main_select(o) = "node" -> CallPrintNode(o.node)
         [] main_select(o) = "graph" -> CallPrintGraph
         [] main_select(o) = "top" -> CallPrintTopLevelNodes
         [] main_select(o) = "leaf" -> CallPrintLeafNodes
         [] OTHER -> FALSE
    /\ UNCHANGED Files

(******************************* Init ***************************************)
\* os.listdir returns the entries in arbitrary order; only the order of the
\* scanned sources can change what the scan builds.
Listings(d) ==
    {SelectSeq(src \o <<"util.h", "base.h", ".git", "inc">>,
               LAMBDA e : <<e>> \in DOMAIN d \/ e \in {".git", "inc"}) :
        src \in {<<"main.cpp", "x.cpp">>, <<"x.cpp", "main.cpp">>}}

Init ==
    /\ disk \in Disks
    /\ incUser \in {<<>>, <<IncDir>>}
    /\ sysInc \in {<<>>, <<SysDir>>}
    /\ listing \in Listings(disk)
    /\ nodes = <<>>
    /\ order = <<>>
    /\ stack = <<Frame("dir_files", Cwd, listing)>>
    /\ pc = "scan"
    /\ mode = "none"
    /\ target = <<>>
    /\ depth = 0
    /\ out = <<>>
    /\ errs = <<>>
    /\ reads = <<>>
    /\ opts = NoOptions

Next ==
    \/ ScanDirFile
    \/ ScanDirFilesDone
    \/ ScanDirSub
    \/ ScanInclude
    \/ ScanReturn
    \/ StartPrintGraph
    \/ PrintGraphNode
    \/ PrintGraphReturn
    \/ \E name \in Targets : StartPrintNode(name)
    \/ PrintTreeChild
    \/ PrintTreeReturn
    \/ print_leaf_nodes
    \/ print_top_level_nodes

Spec == Init /\ [][Next]_vars

\* A run of main() on a tree of WideDisks.
InitMain ==
    /\ disk \in WideDisks
    /\ incUser = <<>>
    /\ sysInc \in {<<>>, <<SysDir>>}
    /\ listing \in Listings(disk)
    /\ nodes = <<>>
    /\ order = <<>>
    /\ stack = <<>>
    /\ pc = "main"
    /\ mode = "none"
    /\ target = <<>>
    /\ depth = 0
    /\ out = <<>>
    /\ errs = <<>>
    /\ reads = <<>>
    /\ opts = NoOptions

NextMain ==
    \/ \E o \in Options({UtilH}) : MainReject(o)
    \/ MainScan
    \/ ScanDirFile
    \/ ScanDirFilesDone
    \/ ScanDirSub
    \/ ScanInclude
    \/ ScanReturn
    \/ \E o \in Options(Targets) : MainRender(o)
    \/ PrintGraphNode
    \/ PrintGraphReturn
    \/ PrintTreeChild
    \/ PrintTreeReturn

SpecMain == InitMain /\ [][NextMain]_vars
(******************************* claims *************************************)
\* The path cpp_scan_dir gives the entry name of the input directory.
InDir(name) == Join(Cwd, name)

\* The includes cpp_scan_file records for the file at path: what its
\* directives resolve to, system headers left out.
IncludesOf(path) ==
    IF isfile(path)
    THEN Range(ReadLines(path, 1, [includes |-> <<>>, errs |-> <<>>]).includes)
    ELSE {}

\* The sources cpp_scan_dir hands to cpp_scan_file.
ScanRoots ==
    {InDir(<<e>>) : e \in {x \in Range(listing) : isfile(InDir(<<x>>)) /\ Ext(x) \in CPP_FILE_TYPES}}

\* The paths reached from S through recorded includes.
RECURSIVE IncludeClosure(_)
IncludeClosure(S) ==
    LET T == S \cup UNION {IncludesOf(A) : A \in S}
    IN  IF T = S THEN S ELSE IncludeClosure(T)

ScanDone == pc # "scan"

LinkedTo(A, B) ==
    /\ A \in DOMAIN nodes /\ B \in DOMAIN nodes
    /\ A \in Range(nodes[B].children)
    /\ nodes[A].has_parent

\* C1 (as stated): after the scan, for ALL files A of the directory whose
\* text holds an include resolving to B, B's node has A as a child and A's
\* node has has_parent.
C1_AllFiles ==
    pc = "scanned" =>
        \A A \in {InDir(f) : f \in {MainCpp, XCpp, UtilH, BaseH}} :
            \A B \in IncludesOf(A) : LinkedTo(A, B)

\* C1 (amended): after the scan, for every file A the scan reaches (a
\* source of a tracked extension in the directory, or a file reached from
\* one through includes) and every B an include of A resolves to, B's node
\* has A as a child and A's node has has_parent.
C1_ScannedFilesLinked ==
    pc = "scanned" =>
        \A A \in IncludeClosure(ScanRoots) :
            \A B \in IncludesOf(A) : LinkedTo(A, B)

\* A header reached through an include has been linked to what it includes.
C1_Witness ==
    /\ pc = "scanned"
    /\ InDir(UtilH) \in IncludeClosure(ScanRoots)
    /\ InDir(BaseH) \in IncludesOf(InDir(UtilH))
    /\ LinkedTo(InDir(UtilH), InDir(BaseH))

\* The files whose text the scan read that include n.
Includers(n) == {m \in DOMAIN reads : n \in IncludesOf(m)}

\* n's text was not read, or holds no tracked include.
IncludesNothing(n) == n \notin DOMAIN reads \/ IncludesOf(n) = {}

OutFiles == {out[i].file : i \in DOMAIN out}

ListingDone(m) == pc = "done" /\ mode = m

\* C2 (as stated): the top-level listing is the set of nodes no scanned
\* file includes, the leaf listing the set of nodes that include nothing.
C2_AsStated ==
    /\ ListingDone("top") => OutFiles = {n \in DOMAIN nodes : Includers(n) = {}}
    /\ ListingDone("leaf") => OutFiles = {n \in DOMAIN nodes : IncludesNothing(n)}

\* C2 (amended): the top-level listing (has_parent == false) is exactly the
\* set of nodes that include no tracked file, and the leaf listing (zero
\* children) is exactly the set of nodes that no scanned file includes.
C2_ListingsInverted ==
    /\ ListingDone("top") =>
         /\ OutFiles = {n \in DOMAIN nodes : IncludesNothing(n)}
         /\ OutFiles = {n \in DOMAIN nodes : ~nodes[n].has_parent}
    /\ ListingDone("leaf") =>
         /\ OutFiles = {n \in DOMAIN nodes : Includers(n) = {}}
         /\ OutFiles = {n \in DOMAIN nodes : Len(nodes[n].children) = 0}
    /\ (ListingDone("top") \/ ListingDone("leaf")) => Len(out) = Cardinality(OutFiles)

\* A top-level listing of a graph with an edge: the included file is listed,
\* the including one is not.
C2_Witness ==
    /\ ListingDone("top")
    /\ InDir(UtilH) \in OutFiles
    /\ InDir(MainCpp) \notin OutFiles
    /\ InDir(MainCpp) \in Range(nodes[InDir(UtilH)].children)

\* The directory of C3: main.cpp includes "util.h", util.h includes
\* "base.h", and there is no other source.
ChainTree ==
    /\ disk[MainCpp] = <<Quoted(UtilH)>>
    /\ UtilH \in DOMAIN disk /\ disk[UtilH] = <<Quoted(BaseH)>>
    /\ disk[BaseH] = <<>>
    /\ XCpp \notin DOMAIN disk

\* What a render printed: the text, the blanks before it and the suffixes
\* of each line.
Printed ==
    [i \in DOMAIN out |-> <<out[i].kind, out[i].text, out[i].indent, out[i].star, out[i].miss>>]

Plain(text, level) == <<"node", text, level * INDENT, FALSE, FALSE>>

\* C3 (as stated): on that directory the full-graph render prints main.cpp,
\* then util.h one level in, then base.h two levels in.
C3_AsStated ==
    (ChainTree /\ ListingDone("graph")) =>
        Printed = <<Plain(MainCpp, 0), Plain(UtilH, 1), Plain(BaseH, 2)>>

\* C3 (amended): on that directory the full-graph render prints exactly
\* three node lines in this order: base.h, then util.h indented one level,
\* then main.cpp indented two levels.
C3_ChainPrintedFromHeader ==
    (ChainTree /\ ListingDone("graph")) =>
        Printed = <<Plain(BaseH, 0), Plain(UtilH, 1), Plain(MainCpp, 2)>>

C3_Witness ==
    ChainTree /\ ListingDone("graph") /\ Len(out) = 3
\* A and B are two files that include each other.
IncludeCycle(A, B) ==
    /\ A # B
    /\ A \in DOMAIN reads /\ B \in DOMAIN reads
    /\ B \in IncludesOf(A) /\ A \in IncludesOf(B)

\* ... and no other file includes either of them.
TwoCycle(A, B) ==
    IncludeCycle(A, B) /\ Includers(A) = {B} /\ Includers(B) = {A}

NodeRender == mode = "node" /\ target \in DOMAIN nodes

Marked(text, level) == <<"node", text, level * INDENT, TRUE, FALSE>>

\* C4 (as stated): given A includes B and B includes A, the single-node
\* render of A ends having printed A, then B with the already-visited
\* marker, and nothing below B.
C4_AsStated ==
    \A B \in DOMAIN nodes :
        (NodeRender /\ pc = "done" /\ TwoCycle(target, B)) =>
            Printed = <<Plain(StripPrefix(target), 0), Marked(StripPrefix(B), 1)>>

\* C4 (amended): given A includes B, B includes A and no other file
\* includes either, the single-node render of A terminates having printed
\* A, then B one level in without marker, then A again two levels in with
\* the already-visited marker: the render descends into B's children, not a
\* second time into A's, and A is the node printed with the marker.
C4_CycleRender ==
    \A B \in DOMAIN nodes :
        (NodeRender /\ TwoCycle(target, B)) =>
            /\ Len(out) <= 3 /\ Len(stack) <= 2
            /\ pc = "render" => (stack # <<>> /\ Top.kind = "tree" /\ Top.i <= Len(Top.items) + 1)
            /\ pc = "done" =>
                 Printed = <<Plain(StripPrefix(target), 0), Plain(StripPrefix(B), 1),
                             Marked(StripPrefix(target), 2)>>

C4_Witness ==
    /\ NodeRender /\ pc = "done"
    /\ TwoCycle(target, InDir(UtilH))
    /\ Len(out) = 3

NoDuplicates(seq) == \A i, j \in DOMAIN seq : i # j => seq[i] # seq[j]

\* C5: during a scan every path is opened at most once, however many
\* include chains, directory entries, cycles or self-includes reach it; no
\* call of cpp_scan_file is entered while another call for the same path is
\* reading it (so the recursion is no deeper than there are paths) and the
\* call on top of the stack always has its next step or its return to take;
\* and no children list holds the same node twice.
C5_ScanIdempotent ==
    /\ \A f \in DOMAIN reads : reads[f] = 1
    /\ \A n \in DOMAIN nodes : NoDuplicates(nodes[n].children)
    /\ \A i, j \in DOMAIN stack :
          (i # j /\ stack[i].kind = "file" /\ stack[j].kind = "file")
              => stack[i].path # stack[j].path
    /\ pc = "scan" => (stack # <<>> /\ Top.i <= Len(Top.items) + 1)

\* A file that includes itself and is included by another was read once.
C5_Witness ==
    /\ pc = "scanned"
    /\ \E f \in DOMAIN reads :
          /\ f \in IncludesOf(f)
          /\ Cardinality(Includers(f)) >= 2
          /\ reads[f] = 1

\* The nodes reached from S through children edges.
RECURSIVE ChildClosure(_)
ChildClosure(S) ==
    LET T == S \cup UNION {Range(nodes[n].children) : n \in S}
    IN  IF T = S THEN S ELSE ChildClosure(T)

CeilingHit == \E i \in DOMAIN out : out[i].kind = "maxdepth"

\* C6: a finished single-node render of N, the depth ceiling not reached,
\* has printed every node reachable from N through children edges.
C6_AllDependentsPrinted ==
    (NodeRender /\ pc = "done" /\ ~CeilingHit) => ChildClosure({target}) \subseteq OutFiles

\* C7: the depth counter is back at its value on entry when print_tree
\* returns, so every root of a full-graph render is printed with no
\* indentation.
C7_RootsNotIndented ==
    mode = "graph" =>
        \A i \in DOMAIN out :
            (out[i].kind = "node" /\ ~nodes[out[i].file].has_parent) => out[i].indent = 0

AListingDone == ListingDone("top") \/ ListingDone("leaf")

\* C8 (as stated): the listings print every matching node unindented and
\* with neither the ' *' nor the ' ?' suffix.
C8_AsStated ==
    AListingDone =>
        \A i \in DOMAIN out : out[i].indent = 0 /\ ~out[i].star /\ ~out[i].miss

\* C8 (amended): the listings print every matching node once, on one line,
\* unindented and without the ' *' suffix; a node marked missing is printed
\* with the ' ?' suffix, which happens in the top-level listing only (a
\* missing node always has the file that includes it as a child).
C8_ListingLines ==
    AListingDone =>
        /\ \A i \in DOMAIN out :
              /\ out[i].kind = "node" /\ out[i].indent = 0 /\ ~out[i].star
              /\ out[i].miss = nodes[out[i].file].missing
              /\ mode = "leaf" => ~out[i].miss
        /\ [i \in DOMAIN out |-> out[i].file]
             = SelectSeq(order, LAMBDA f : IF mode = "top" THEN ~nodes[f].has_parent
                                           ELSE Len(nodes[f].children) = 0)

C8_Witness ==
    /\ ListingDone("top")
    /\ \E i \in DOMAIN out : out[i].miss
    /\ \E i \in DOMAIN out : ~out[i].miss

\* The directories resolve_path tries for an include, in the order it tries
\* them: the including directory for the quoted form only, then the -I
\* directories, then the system directories.
Candidates(dir, quoted) == (IF quoted THEN <<dir>> ELSE <<>>) \o incUser \o sysInc

Found(c, s) == {i \in DOMAIN c : isfile(Join(c[i], s))}

FirstMatch(dir, s, quoted) ==
    LET c == Candidates(dir, quoted)
    IN  IF Found(c, s) = {} THEN s
        ELSE Join(c[CHOOSE i \in Found(c, s) : \A j \in Found(c, s) : i <= j], s)

SomeDirs == {Cwd, <<>>, IncDir, SysDir}
SomeSpellings == {MainCpp, XCpp, UtilH, BaseH, IncDir \o <<SEP>> \o UtilH}

\* C9: resolve_path returns the including directory joined with the
\* spelling if the include is quoted and that file exists, otherwise the
\* first existing file among the search paths joined with the spelling,
\* the -I directories before the system ones, otherwise the spelling; for
\* an angle-bracket include the including directory makes no difference.
\* The scan names every node it links by that result (stated of the
\* finished scan, for the files and search paths it ran with).
C9_ResolveFirstMatch ==
    pc = "scanned" =>
        /\ \A dir \in SomeDirs, s \in SomeSpellings, q \in BOOLEAN :
              resolve_path(dir, s, q) = FirstMatch(dir, s, q)
        /\ \A dir \in SomeDirs, s \in SomeSpellings :
              resolve_path(dir, s, FALSE) = resolve_path(Cwd, s, FALSE)
        /\ \A n \in DOMAIN nodes : \A A \in Range(nodes[n].children) :
              \E i \in DOMAIN disk[Canon(A)] :
                  LET line == disk[Canon(A)][i]
                  IN  n = FirstMatch(Split(A)[1], line.spelling, line.open = "\"")

\* An angle-bracket include of a header that the including directory, the
\* -I directory and the system directory all hold was linked to the -I one.
C9_Witness ==
    /\ pc = "scanned"
    /\ incUser # <<>> /\ sysInc # <<>> /\ isfile(InDir(UtilH))
    /\ Angle(UtilH) \in Range(disk[MainCpp])
    /\ Join(IncDir, UtilH) \in DOMAIN nodes
    /\ InDir(MainCpp) \in Range(nodes[Join(IncDir, UtilH)].children)

\* The directive matches neither the including directory nor a search path.
Unmatched(dir, line) ==
    /\ ~(line.open = "\"" /\ isfile(Join(dir, line.spelling)))
    /\ \A i \in DOMAIN inc_search_paths : ~isfile(Join(inc_search_paths[i], line.spelling))

\* C10: after the scan, the node of every include spelling that matched
\* neither the including directory nor a search path is marked missing and
\* its path was never read.
C10_UnresolvedIsMissing ==
    ScanDone =>
        \A A \in DOMAIN reads : \A i \in DOMAIN disk[Canon(A)] :
            LET line == disk[Canon(A)][i]
            IN  (Matches(line) /\ ~InvalidDelims(line) /\ Unmatched(Split(A)[1], line))
                    => /\ line.spelling \in DOMAIN nodes
                       /\ nodes[line.spelling].missing
                       /\ line.spelling \notin DOMAIN reads
\* The lines of the file at path.
LinesAt(path) == disk[Canon(path)]

\* A directive the scan accepts: the pattern matches it at the start of the
\* line and its delimiters agree.
WellFormed(line) == line.lead = 0 /\ <<line.open, line.close>> \in {<<"<", ">">>, <<"\"", "\"">>}
Mismatched(line) == line.lead = 0 /\ <<line.open, line.close>> \in {<<"<", "\"">>, <<"\"", ">">>}

\* What the directive line of the file at path resolves to.
ResolvedFrom(path, line) == resolve_path(Split(path)[1], line.spelling, line.open = "\"")

\* The files the well-formed directives of the file at path name, system
\* headers left out.
WellFormedTargets(path) ==
    {r \in {ResolvedFrom(path, LinesAt(path)[n]) :
                n \in {k \in DOMAIN LinesAt(path) : WellFormed(LinesAt(path)[k])}} :
        ~is_sys_header_path(Split(r)[1])}

\* The files the scan opened.
FilesRead == DOMAIN reads

\* C11: when the scan is over, every directive with mismatched delimiters at
\* line n of a file F that was read has its diagnostic, naming F and n; the
\* nodes F is linked to are exactly those its well-formed directives name
\* (so the mismatched one links nothing and the directives after it are
\* recorded), and every node of the graph is a scanned source or named by a
\* well-formed directive of a file that was read.
C11_MismatchedSkipped ==
    pc = "scanned" =>
        /\ \A F \in FilesRead :
              /\ \A n \in DOMAIN LinesAt(F) :
                    Mismatched(LinesAt(F)[n]) =>
                        [kind |-> "invalid", path |-> F, line_num |-> n] \in Range(errs)
              /\ {g \in DOMAIN nodes : F \in Range(nodes[g].children)} = WellFormedTargets(F)
        /\ DOMAIN nodes = ScanRoots \cup UNION {WellFormedTargets(F) : F \in FilesRead}

\* main.cpp was read, a line of it has mismatched delimiters and names a
\* file that got no node, and a well-formed directive after it is recorded.
C11_Witness ==
    /\ pc = "scanned"
    /\ InDir(MainCpp) \in FilesRead
    /\ \E n \in DOMAIN LinesAt(MainCpp) :
          /\ Mismatched(LinesAt(MainCpp)[n])
          /\ ResolvedFrom(InDir(MainCpp), LinesAt(MainCpp)[n]) \notin DOMAIN nodes
          /\ \E k \in DOMAIN LinesAt(MainCpp) :
                /\ k > n
                /\ WellFormed(LinesAt(MainCpp)[k])
                /\ LinkedTo(InDir(MainCpp), ResolvedFrom(InDir(MainCpp), LinesAt(MainCpp)[k]))
\* C12: when the scan is over, a directive written after blanks, with
\* agreeing delimiters, in a file that was read is recorded like the same
\* directive in column 0: the file is linked to what the directive resolves
\* to (system headers apart).
C12_IndentedRecorded ==
    pc = "scanned" =>
        \A F \in FilesRead : \A n \in DOMAIN LinesAt(F) :
            LET line == LinesAt(F)[n]
                r == ResolvedFrom(F, line)
            IN  (line.lead > 0 /\ WellFormed([line EXCEPT !.lead = 0])
                  /\ ~is_sys_header_path(Split(r)[1]))
                    => LinkedTo(F, r)
\* dir_path is a system-header directory or lies below one.
UnderSystemPath(dir_path) ==
    \E i \in 1..Len(sysInc) :
        dir_path = sysInc[i] \/ StartsWith(dir_path, sysInc[i] \o <<SEP>>)

\* C13: when the scan is over, for every well-formed directive of a file F
\* that was read: if the directory of the file it resolves to is a
\* system-header directory or below one, that file has no node; otherwise
\* the include is not ignored, F is linked to that file.
C13_OnlySystemIgnored ==
    pc = "scanned" =>
        \A F \in FilesRead : \A n \in DOMAIN LinesAt(F) :
            LET r == ResolvedFrom(F, LinesAt(F)[n])
            IN  WellFormed(LinesAt(F)[n]) =>
                    IF UnderSystemPath(Split(r)[1]) THEN r \notin DOMAIN nodes
                    ELSE LinkedTo(F, r)
\* main() has read its options and has exited or called a render.
MainDecided == pc \in {"render", "done", "exit"}

\* C14: once main() has decided, it has exited with the configuration error
\* exactly when both flags were given; otherwise the render it called is the
\* single-node render when a node target was given, else the top-level
\* listing for the top-level flag, the leaf listing for the leaf-level
\* flag, and the full graph when no flag was given.
C14_ModeSelection ==
    MainDecided =>
        /\ (pc = "exit") <=> (opts.top /\ opts.leaf)
        /\ pc # "exit" =>
              mode = (IF opts.node # <<>> THEN "node"
                      ELSE IF opts.top THEN "top"
                      ELSE IF opts.leaf THEN "leaf"
                      ELSE "graph")
\* C15: in every state of a render, no node line was printed at a depth
\* above MAX_DEPTH; the diagnostic names a depth above MAX_DEPTH; once the
\* diagnostic is printed no node line follows it; and right after the
\* diagnostic no print_tree call of the tree is left on the stack.
C15_DepthCeiling ==
    /\ \A i \in DOMAIN out :
          /\ out[i].kind = "node" => out[i].indent <= MAX_DEPTH * INDENT
          /\ out[i].kind = "maxdepth" =>
                /\ out[i].indent > MAX_DEPTH
                /\ \A j \in DOMAIN out : j > i => out[j].kind # "node"
    /\ (out # <<>> /\ out[Len(out)].kind = "maxdepth") =>
          \A k \in DOMAIN stack : stack[k].kind # "tree"

\* A render that printed a node at depth MAX_DEPTH, entered print_tree for
\* a child of it and ended with the diagnostic.
C15_Witness ==
    /\ pc = "done"
    /\ Len(out) >= 2
    /\ out[Len(out)].kind = "maxdepth"
    /\ out[Len(out) - 1].kind = "node"
    /\ out[Len(out) - 1].indent = MAX_DEPTH * INDENT
    /\ ~out[Len(out) - 1].star
\* s is a prefix of t.
Prefix(s, t) == Len(s) <= Len(t) /\ SubSeq(t, 1, Len(s)) = s

\* The graph is well formed: one node per path string, which get_node
\* returns without touching the graph; no node twice in a children list;
\* has_parent set exactly on the nodes of some children list.
GraphWellFormed ==
    /\ NoDuplicates(order)
    /\ Range(order) = DOMAIN nodes
    /\ \A f \in DOMAIN nodes :
          /\ get_node([nodes |-> nodes, order |-> order], f) = [nodes |-> nodes, order |-> order]
          /\ NoDuplicates(nodes[f].children)
          /\ Range(nodes[f].children) \subseteq DOMAIN nodes
          /\ nodes[f].has_parent <=> \E g \in DOMAIN nodes : f \in Range(nodes[g].children)

\* A step only adds: nodes stay, children lists grow at their end,
\* has_parent stays set.
GraphGrows ==
    /\ Prefix(order, order')
    /\ \A f \in DOMAIN nodes :
          /\ f \in DOMAIN nodes'
          /\ Prefix(nodes[f].children, nodes'[f].children)
          /\ nodes[f].has_parent => nodes'[f].has_parent

\* C16: the graph is well formed in every reachable state, and no step
\* removes a node or an edge or resets has_parent.
C16_GraphInvariant == []GraphWellFormed /\ [][GraphGrows]_vars

\* The scan is under way, a node has two children and a file that includes
\* the same header twice is linked to it once.
C16_Witness ==
    /\ pc = "scan"
    /\ \E f \in DOMAIN nodes : Len(nodes[f].children) >= 2
    /\ \E F \in FilesRead : \E n, k \in DOMAIN LinesAt(F) :
          /\ n < k
          /\ WellFormed(LinesAt(F)[n]) /\ WellFormed(LinesAt(F)[k])
          /\ ResolvedFrom(F, LinesAt(F)[n]) = ResolvedFrom(F, LinesAt(F)[k])
          /\ LinkedTo(F, ResolvedFrom(F, LinesAt(F)[n]))
\* A render pass was started: a render method of the graph was called
\* (main() calls none for a --node name that is not in the graph).
PassStarted == pc \in {"render", "done"} /\ (mode = "node" => target \in DOMAIN nodes)

\* The node of out[i] was printed earlier in the pass.
PrintedBefore(i) == \E j \in 1..(i - 1) : out[j].kind = "node" /\ out[j].file = out[i].file

\* C17: in every state of a render pass, the visited flags are exactly those
\* the pass has set (the nodes print_tree has printed, none in a listing),
\* the depth is 0 as long as nothing is printed and the first node line is
\* not indented; a node line carries the marker exactly when its node was
\* printed earlier in the pass, so no node has two lines without marker.
C17_PassStartsClean ==
    PassStarted =>
        /\ \A f \in DOMAIN nodes :
              nodes[f].visited <=> (mode \in {"graph", "node"} /\ f \in OutFiles)
        /\ out = <<>> => depth = 0
        /\ (out # <<>> /\ out[1].kind = "node") => out[1].indent = 0
        /\ \A i \in DOMAIN out : out[i].kind = "node" => (out[i].star <=> PrintedBefore(i))
        /\ \A i, j \in DOMAIN out :
              (i # j /\ out[i].kind = "node" /\ out[j].kind = "node"
                /\ ~out[i].star /\ ~out[j].star) => out[i].file # out[j].file

\* A finished full-graph render in which a node was printed and later
\* printed again with the marker.
C17_Witness ==
    /\ pc = "done" /\ mode = "graph"
    /\ \E i, j \in DOMAIN out :
          /\ i < j
          /\ out[i].kind = "node" /\ ~out[i].star
          /\ out[j].kind = "node" /\ out[j].star /\ out[j].file = out[i].file
\* C18: a finished full-graph render that did not reach the depth ceiling
\* has printed every node of the graph at least once.
C18_EveryNodePrinted ==
    (pc = "done" /\ mode = "graph" /\ ~CeilingHit) => DOMAIN nodes \subseteq OutFiles

\* The most children edges on a path that starts at f and enters no node of
\* seen, and no node twice.
RECURSIVE Deepest(_, _)
Deepest(f, seen) ==
    LET below == Range(nodes[f].children) \ seen
        best(S) == CHOOSE d \in S : \A e \in S : e <= d
    IN  IF below = {} THEN 0
        ELSE 1 + best({Deepest(c, seen \cup {c}) : c \in below})

\* The graph holds a chain of children edges nested deeper than MAX_DEPTH.
DeepChain == \E f \in DOMAIN nodes : Deepest(f, {f}) > MAX_DEPTH

\* C19: a render of a graph without a chain deeper than MAX_DEPTH prints no
\* max-depth diagnostic, and its full-graph render, once finished, has
\* printed every root.
C19_CeilingOnlyForDeepChains ==
    (PassStarted /\ ~DeepChain) =>
        /\ ~CeilingHit
        /\ (pc = "done" /\ mode = "graph") =>
              {f \in DOMAIN nodes : ~nodes[f].has_parent} \subseteq OutFiles
\* The path texts a render prints for the nodes of the graph.
PrintedNames == {StripPrefix(f) : f \in DOMAIN nodes}

\* C20: a single-node render whose target is a text the renders print for a
\* node of the graph finds a node: its first line is the line of a node
\* with that text, not '[none]'.
C20_PrintedNameIsTarget ==
    (pc \in {"render", "done"} /\ mode = "node" /\ target \in PrintedNames) =>
        /\ out # <<>>
        /\ out[1].kind = "node"
        /\ out[1].text = target
====
